---- MODULE Spec2Model ----
(***************************************************************************)
(* error.c: error reporting, checked memory allocation and the program and *)
(* source names (the non-__APPLE__ build, where the module keeps pname).   *)
(*                                                                         *)
(* A C string is the sequence of its characters without the terminator.    *)
(* A pointer is a record [b, o]: b = -1 is NULL, b = 0 is the string the   *)
(* caller passed to the running call, b in 1..NAddr is a heap block; o is  *)
(* the offset into it.                                                     *)
(*                                                                         *)
(* A C function is an operator from its arguments and the machine state m  *)
(* (heap, errno, process status, what was written to stderr) to the set of *)
(* outcomes it can have; a caller goes on only from an outcome in which    *)
(* the process is still running.  Every operation of the module is one     *)
(* action, which takes one outcome of the function.  Once the process has  *)
(* ended nothing is enabled.                                               *)
(***************************************************************************)
EXTENDS Integers, Sequences, FiniteSets, TLC

\* ---- bounds of the model
MaxPath == 2        \* longest string a caller passes to the name and strdup calls
MaxFmt  == 1        \* longest format (in tokens) a caller passes
NAddr   == 2        \* heap blocks the allocator can hand out
MaxLine == 1        \* largest line and column the scanner reports

\* ---- program constants
EXIT_ERROR == 2
EXIT_TAGGED == 3
STDERR_FILENO == 2
PREC == 20

\* errno values (errno.h) of the platform
ENOENT == 2
ENOMEM == 12
ENOTTY == 25

VARIABLES
    position,   \* SourcePos position
    pname,      \* static char *pname
    sname,      \* static char *sname
    heap,       \* the allocator's blocks
    errno,      \* errno
    istty,      \* whether file descriptor 2 is a terminal
    status,     \* "running", "exited" (exit was called), or the signal that
                \* ended the process
    exitCode,   \* the argument of exit
    prel,       \* pname was passed to free since it was last assigned
    srel,       \* sname was passed to free since it was last assigned
    diag,       \* what the last operation wrote to stderr, step by step
    last        \* the last operation: its name, argument, result

vars == <<position, pname, sname, heap, errno, istty, status, exitCode,
          prel, srel, diag, last>>

\* ---- strings and pointers
NULL == [b |-> -1, o |-> 0]
Addr == 1..NAddr
HeapPtr(a) == [b |-> a, o |-> 0]
ArgPtr == [b |-> 0, o |-> 0]

RECURSIVE SeqsUpTo(_, _)
SeqsUpTo(S, n) ==
    IF n = 0 THEN {<<>>}
    ELSE LET R == SeqsUpTo(S, n - 1)
         IN  R \cup {Append(r, c) : r \in {q \in R : Len(q) = n - 1}, c \in S}

Paths == SeqsUpTo({"a", "/"}, MaxPath)
Fmts == SeqsUpTo({"x", ":", "%s"}, MaxFmt)
ArgVals == {<<"y", ":">>}
Sizes == {1, 16}
Garbage == {<<>>, <<"?">>}

Drop(s, k) == SubSeq(s, k + 1, Len(s))
Take(s, k) == SubSeq(s, 1, IF k < Len(s) THEN k ELSE Len(s))

\* the string a pointer points to; arg is the string of the caller's argument
CStr(p, arg) == IF p.b = 0 THEN Drop(arg, p.o) ELSE Drop(heap[p.b].data, p.o)

strlen(s) == Len(s)

\* strrchr(s, ch) for the caller's argument s: a pointer to the last ch, or NULL
strrchr(s, ch) ==
    LET I == {i \in 1..Len(s) : s[i] = ch}
    IN  IF I = {} THEN NULL
        ELSE [b |-> 0, o |-> (CHOOSE i \in I : \A j \in I : j <= i) - 1]

\* strerror(e)
strerror(e) ==
    CASE e = 0      -> <<"Success">>
      [] e = ENOENT -> <<"No such file or directory">>
      [] e = ENOMEM -> <<"Cannot allocate memory">>
      [] e = ENOTTY -> <<"Inappropriate ioctl for device">>
      [] OTHER      -> <<"Unknown error">>

\* ---- ASCII colours
ESC == <<"\\033[">>
BOLD == <<"1;">>
ASCII_RESET == ESC \o <<"m">>
RED == <<"31m">>
YELLOW == <<"33m">>
WHITE == <<"37m">>
ASCII_BOLD_RED == ESC \o BOLD \o RED
ASCII_BOLD_YELLOW == ESC \o BOLD \o YELLOW
ASCII_BOLD_WHITE == ESC \o BOLD \o WHITE

\* ---- the allocator
FreeCell == [live |-> FALSE, own |-> "none", data |-> <<>>]

\* the heap after a block was handed out; its bytes are not initialised
Allocated(h, p) ==
    [h EXCEPT ![p.b] = [live |-> TRUE, own |-> "caller", data |-> h[p.b].data]]

\* the heap after free(p) of a block in use: the allocator keeps its own
\* bookkeeping in the bytes of a block that is not in use
Freed(h, p) == IF p = NULL THEN h ELSE [h EXCEPT ![p.b] = FreeCell]

\* strcpy(t, s) into a heap block
Copied(h, t, s) == [h EXCEPT ![t.b].data = s]

\* ---- the library calls the reporting routines make
\* isatty(fd): 1 for a terminal; otherwise 0, and errno is set to ENOTTY
isatty(fd, e) ==
    IF fd = STDERR_FILENO /\ istty THEN [ret |-> 1, errno |-> e]
    ELSE [ret |-> 0, errno |-> ENOTTY]

\* the decimal text of an int, as %d and %u write it
Dec(n) == <<ToString(n)>>

\* vfprintf(stderr, fmt, args): the text the format produces from the arguments
RECURSIVE Format(_, _)
Format(fmt, args) ==
    IF fmt = <<>> THEN <<>>
    ELSE CASE Head(fmt) = "%s"    -> Head(args) \o Format(Tail(fmt), Tail(args))
           [] Head(fmt) = "%.20s" -> Take(Head(args), PREC) \o Format(Tail(fmt), Tail(args))
           [] Head(fmt) = "%u"    -> Dec(Head(args)) \o Format(Tail(fmt), Tail(args))
           [] OTHER               -> <<Head(fmt)>> \o Format(Tail(fmt), args)

IsDirective(t) == t \in {"%s", "%.20s", "%u"}
NDirectives(fmt) == Cardinality({i \in 1..Len(fmt) : IsDirective(fmt[i])})
ArgsFor(fmt) == [1..NDirectives(fmt) -> ArgVals]

\* ---- optional arguments of _weprintf
Str(s) == [null |-> FALSE, s |-> s]
NullStr == [null |-> TRUE, s |-> <<>>]
NullPos == [null |-> TRUE, line |-> 0, col |-> 0]
PosPtr(p) == [null |-> FALSE, line |-> p.line, col |-> p.col]

\* ---- machine state and outcomes
NoDiag == [entry |-> "none", fmt |-> <<>>, e0 |-> 0, steps |-> <<>>]
\* the bytes of a block the caller owns are the caller's to write between two
\* calls: an operation starts with them unknown
Unknown(h) == [a \in Addr |-> IF h[a].own = "caller" THEN [h[a] EXCEPT !.data = <<>>] ELSE h[a]]
Machine ==
    [heap |-> Unknown(heap), errno |-> errno, status |-> status, exitCode |-> exitCode,
     diag |-> NoDiag]

\* exit(code)
exit(code, m) == [m EXCEPT !.status = "exited", !.exitCode = code]
\* the process is ended by a signal
raise(sig, m) == [m EXCEPT !.status = sig]

Outcome(m, ret, ub) ==
    [m |-> m, ret |-> ret, returned |-> m.status = "running", ub |-> ub]

\* the allocator is first fit: the block it hands out next
FirstFree(h) == CHOOSE a \in Addr : ~h[a].live /\ \A x \in Addr : ~h[x].live => a <= x
HasFree(h) == \E a \in Addr : ~h[a].live

\* malloc(n): NULL with errno = ENOMEM, or the first block that is not in use
malloc(n, m) ==
    {[m |-> [m EXCEPT !.errno = ENOMEM], ret |-> NULL]}
    \cup (IF HasFree(m.heap)
          THEN {[m |-> [m EXCEPT !.heap = Allocated(m.heap, HeapPtr(FirstFree(m.heap)))],
                 ret |-> HeapPtr(FirstFree(m.heap))]}
          ELSE {})

\* realloc(vp, n): as malloc for vp = NULL; otherwise NULL with the block left
\* as it was, or the block resized in place, or its bytes moved to a new block
realloc(vp, n, m) ==
    IF vp = NULL THEN malloc(n, m)
    ELSE {[m |-> [m EXCEPT !.errno = ENOMEM], ret |-> NULL], [m |-> m, ret |-> vp]}
         \cup (IF HasFree(m.heap)
               THEN LET t == HeapPtr(FirstFree(m.heap))
                    IN  {[m |-> [m EXCEPT !.heap =
                                    Freed(Copied(Allocated(m.heap, t), t, m.heap[vp.b].data), vp)],
                          ret |-> t]}
               ELSE {})

\* strcpy(t, s): a write through NULL raises SIGSEGV or goes unnoticed
strcpy(t, s, m) ==
    IF t = NULL THEN {raise("SIGSEGV", m), m}
    ELSE {[m EXCEPT !.heap = Copied(m.heap, t, s)]}

getprogname == pname
getsrcname == sname

\* what reading the string at a name pointer can give: the block's bytes, or,
\* once the block was passed to free, whatever the allocator or a later owner
\* left there
Deref(p, released, m) ==
    IF p = NULL THEN {<<>>}
    ELSE IF released THEN {m.heap[p.b].data} \cup Garbage
    ELSE {m.heap[p.b].data}

Step(k, out) == [k |-> k, out |-> out]

\* ---- error routines
\* the writes _weprintf makes, in order; progtxt and srctxt are the strings
\* read through getprogname() and getsrcname(), tty the result of isatty(2)
Writes(pre, pos, fmt, args, progtxt, srctxt, tty) ==
    LET ac_end == IF tty.ret = 1 THEN ASCII_RESET ELSE <<>>
        ac_src == IF tty.ret = 1 THEN ASCII_BOLD_WHITE ELSE <<>>
        ac_pos == IF tty.ret = 1 THEN ASCII_BOLD_WHITE ELSE <<>>
        progname == getprogname
        srcname == getsrcname
        s0 == <<Step("fflush", <<>>)>>
        s1 == IF progname # NULL
              THEN Append(s0, Step("progname", progtxt \o <<":">>))
              ELSE s0
        s2 == IF srcname # NULL
              THEN Append(s1, Step("srcname", <<" ">> \o ac_src \o srctxt \o <<":">> \o ac_end))
              ELSE s1
        s3 == IF ~pos.null
              THEN Append(s2, Step("pos", ac_pos \o Dec(pos.line) \o <<":">> \o Dec(pos.col)
                                          \o ac_end \o <<":">>))
              ELSE s2
        s4 == IF ~pre.null
              THEN Append(s3, Step("pre", <<" ">> \o pre.s \o <<" ">>))
              ELSE Append(s3, Step("pre", <<" ">>))
        s5 == Append(s4, Step("body", Format(fmt, args)))
        s6 == IF fmt # <<>> /\ fmt[strlen(fmt)] = ":"
              THEN Append(s5, Step("strerror", <<" ">> \o strerror(tty.errno)))
              ELSE s5
    IN  Append(s6, Step("newline", <<"\n">>))

\* mutant: stdout is flushed after the line was written
_weprintf_flushes_last(pre, pos, fmt, args, m) ==
    LET tty == isatty(STDERR_FILENO, m.errno)
    IN  {[m EXCEPT !.errno = tty.errno,
                   !.diag = [entry |-> "_weprintf", fmt |-> fmt, e0 |-> m.errno,
                             steps |-> LET w == Writes(pre, pos, fmt, args, progtxt, srctxt, tty)
                                       IN  Tail(w) \o <<Head(w)>>]] :
            progtxt \in Deref(pname, prel, m), srctxt \in Deref(sname, srel, m)}

\* _weprintf(pre, pos, fmt, args): the machine states it can return in
_weprintf(pre, pos, fmt, args, m) ==
    LET tty == isatty(STDERR_FILENO, m.errno)
    IN  {[m EXCEPT !.errno = tty.errno,
                   !.diag = [entry |-> "_weprintf", fmt |-> fmt, e0 |-> m.errno,
                             steps |-> m.diag.steps
                                       \o Writes(pre, pos, fmt, args, progtxt, srctxt, tty)]] :
            progtxt \in Deref(pname, prel, m), srctxt \in Deref(sname, srel, m)}

\* the diagnostic is that of the public routine entry, entered with errno = e0
Entered(entry, e0, m) == [m EXCEPT !.diag.entry = entry, !.diag.e0 = e0]

\* mutant: the tag is coloured whether or not stderr is a terminal
ErrorPre_always(tty) == ASCII_BOLD_RED \o <<"Error:">> \o ASCII_RESET

ErrorPre(tty) ==
    IF tty.ret = 1 THEN ASCII_BOLD_RED \o <<"Error:">> \o ASCII_RESET ELSE <<"Error:">>
WarningPre(tty) ==
    IF tty.ret = 1 THEN ASCII_BOLD_YELLOW \o <<"Warning:">> \o ASCII_RESET ELSE <<"Warning:">>

\* mutant: exit(2) is missing
eprintf_returns(fmt, args, m) ==
    LET tty == isatty(STDERR_FILENO, m.errno)
    IN  {Entered("eprintf", m.errno, w) :
            w \in _weprintf(Str(ErrorPre(tty)), NullPos, fmt, args,
                            [m EXCEPT !.errno = tty.errno])}

eprintf(fmt, args, m) ==
    LET tty == isatty(STDERR_FILENO, m.errno)
    IN  {exit(EXIT_ERROR, Entered("eprintf", m.errno, w)) :
            w \in _weprintf(Str(ErrorPre(tty)), NullPos, fmt, args,
                            [m EXCEPT !.errno = tty.errno])}

\* mutant: NULL is passed for the position
leprintf_without_position(fmt, args, m) ==
    LET tty == isatty(STDERR_FILENO, m.errno)
    IN  {exit(EXIT_ERROR, Entered("leprintf", m.errno, w)) :
            w \in _weprintf(Str(ErrorPre(tty)), NullPos, fmt, args,
                            [m EXCEPT !.errno = tty.errno])}

leprintf(fmt, args, m) ==
    LET tty == isatty(STDERR_FILENO, m.errno)
    IN  {exit(EXIT_ERROR, Entered("leprintf", m.errno, w)) :
            w \in _weprintf(Str(ErrorPre(tty)), PosPtr(position), fmt, args,
                            [m EXCEPT !.errno = tty.errno])}

\* mutant: the warning ends the process as an error does
weprintf_exits(fmt, args, m) ==
    LET tty == isatty(STDERR_FILENO, m.errno)
    IN  {exit(EXIT_ERROR, Entered("weprintf", m.errno, w)) :
            w \in _weprintf(Str(WarningPre(tty)), NullPos, fmt, args,
                            [m EXCEPT !.errno = tty.errno])}

weprintf(fmt, args, m) ==
    LET tty == isatty(STDERR_FILENO, m.errno)
    IN  {Entered("weprintf", m.errno, w) :
            w \in _weprintf(Str(WarningPre(tty)), NullPos, fmt, args,
                            [m EXCEPT !.errno = tty.errno])}

teprintf(tag, fmt, args, m) ==
    {exit(EXIT_TAGGED, Entered("teprintf", m.errno, w)) :
        w \in _weprintf(tag, PosPtr(position), fmt, args, m)}

\* ---- string and memory routines
EstrdupFmt == <<"estrdup(\"", "%.20s", "\") failed", ":">>
MallocFmt == <<"malloc of ", "%u", " bytes failed", ":">>
ReallocFmt == <<"realloc of ", "%u", " bytes failed", ":">>

\* the outcome of a routine when a call in it has ended the process: the
\* statements after the call are not executed
Ended(m) == {Outcome(m, NULL, "none")}

\* the outcomes of strcpy(t, s); return t
CopyAndReturn(t, s, m) ==
    {Outcome(m2, t, IF t = NULL THEN "null-write" ELSE "none") : m2 \in strcpy(t, s, m)}

estrdup(s, m) ==
    UNION {LET t == a.ret
           IN  IF t = NULL
               THEN UNION {IF m1.status = "running" THEN CopyAndReturn(t, s, m1) ELSE Ended(m1) :
                              m1 \in eprintf(EstrdupFmt, <<s>>, a.m)}
               ELSE CopyAndReturn(t, s, a.m)
           : a \in malloc(strlen(s) + 1, m)}

westrdup(s, m) ==
    UNION {LET t == a.ret
           IN  IF t = NULL
               THEN UNION {IF m1.status = "running" THEN CopyAndReturn(t, s, m1) ELSE Ended(m1) :
                              m1 \in weprintf(EstrdupFmt, <<s>>, a.m)}
               ELSE CopyAndReturn(t, s, a.m)
           : a \in malloc(strlen(s) + 1, m)}

\* mutant: the result of malloc is returned unchecked
emalloc_unchecked(n, m) == {Outcome(a.m, a.ret, "none") : a \in malloc(n, m)}

emalloc(n, m) ==
    UNION {LET p == a.ret
           IN  IF p = NULL
               THEN UNION {IF m1.status = "running" THEN {Outcome(m1, p, "none")} ELSE Ended(m1) :
                              m1 \in eprintf(MallocFmt, <<n>>, a.m)}
               ELSE {Outcome(a.m, p, "none")}
           : a \in malloc(n, m)}

wemalloc(n, m) ==
    UNION {LET p == a.ret
           IN  IF p = NULL
               THEN UNION {IF m1.status = "running" THEN {Outcome(m1, p, "none")} ELSE Ended(m1) :
                              m1 \in weprintf(MallocFmt, <<n>>, a.m)}
               ELSE {Outcome(a.m, p, "none")}
           : a \in malloc(n, m)}

erealloc(vp, n, m) ==
    UNION {LET p == a.ret
           IN  IF p = NULL
               THEN UNION {IF m1.status = "running" THEN {Outcome(m1, p, "none")} ELSE Ended(m1) :
                              m1 \in eprintf(ReallocFmt, <<n>>, a.m)}
               ELSE {Outcome(a.m, p, "none")}
           : a \in realloc(vp, n, m)}

werealloc(vp, n, m) ==
    UNION {LET p == a.ret
           IN  IF p = NULL
               THEN UNION {IF m1.status = "running" THEN {Outcome(m1, p, "none")} ELSE Ended(m1) :
                              m1 \in weprintf(ReallocFmt, <<n>>, a.m)}
               ELSE {Outcome(a.m, p, "none")}
           : a \in realloc(vp, n, m)}

\* free(p): nothing for NULL; a block that is not in use was freed before, and
\* the allocator either aborts or does not notice
free(p, m) ==
    IF p = NULL THEN {m}
    ELSE IF m.heap[p.b].live THEN {[m EXCEPT !.heap = Freed(m.heap, p)]}
    ELSE {raise("SIGABRT", m), m}

\* ---- the names
\* mutant: c is not moved past the '/'
LastComponent_keeps_slash(s) ==
    LET c == strrchr(s, "/")
    IN  IF c = NULL THEN ArgPtr ELSE c

\* if ((c = strrchr(s, '/')) == NULL) c = s; else c++;
LastComponent(s) ==
    LET c == strrchr(s, "/")
    IN  IF c = NULL THEN ArgPtr ELSE [c EXCEPT !.o = @ + 1]

\* the outcomes of estrdup(c) in setprogname(s) and setsrcname(s)
setname(s, m) == estrdup(CStr(LastComponent(s), s), m)

\* ---- what the last operation was
Op(op, arg, o) ==
    [op |-> op, arg |-> arg, tag |-> NullStr, ret |-> o.ret, returned |-> o.returned,
     ub |-> o.ub]

\* a reporting routine reads pname and sname; reading one that was freed is a
\* use after free
NameUB ==
    IF (pname # NULL /\ prel) \/ (sname # NULL /\ srel) THEN "use-after-free" ELSE "none"

\* the new machine state is m
Becomes(m) ==
    /\ heap' = m.heap
    /\ errno' = m.errno
    /\ status' = m.status
    /\ exitCode' = m.exitCode
    /\ diag' = m.diag

Running == status = "running"

\* ---- the operations
Init ==
    /\ position = [line |-> 0, col |-> 0]
    /\ pname = NULL
    /\ sname = NULL
    /\ heap = [a \in Addr |-> FreeCell]
    /\ errno = 0
    /\ istty \in BOOLEAN
    /\ status = "running"
    /\ exitCode = 0
    /\ prel = FALSE
    /\ srel = FALSE
    /\ diag = NoDiag
    /\ last = Op("start", <<>>, Outcome(Machine, NULL, "none"))

\* the scanner moves on
Scan(l, c) ==
    /\ Running
    /\ position' = [line |-> l, col |-> c]
    /\ Becomes(Machine)
    /\ last' = Op("scan", <<>>, Outcome(Machine, NULL, "none"))
    /\ UNCHANGED <<pname, sname, istty, prel, srel>>

\* a library call of the caller fails and sets errno
SysCallFails ==
    /\ Running
    /\ Becomes([Machine EXCEPT !.errno = ENOENT])
    /\ last' = Op("syscall", <<>>, Outcome(Machine, NULL, "none"))
    /\ UNCHANGED <<position, pname, sname, istty, prel, srel>>

\* the caller frees a block it got from the allocation routines
CallerFree(a) ==
    /\ Running
    /\ heap[a].live /\ heap[a].own = "caller"
    /\ \E m \in free(HeapPtr(a), Machine) : Becomes(m)
    /\ last' = Op("free", <<>>, Outcome(Machine, NULL, "none"))
    /\ UNCHANGED <<position, pname, sname, istty, prel, srel>>

\* a reporting routine is called
Reports(op, tag, fmt, ms) ==
    /\ Running
    /\ \E m \in ms :
          /\ Becomes(m)
          /\ last' = [Op(op, fmt, Outcome(m, NULL, NameUB)) EXCEPT !.tag = tag]
    /\ UNCHANGED <<position, pname, sname, istty, prel, srel>>

CallEprintf(fmt, args) == Reports("eprintf", NullStr, fmt, eprintf(fmt, args, Machine))
CallLeprintf(fmt, args) == Reports("leprintf", NullStr, fmt, leprintf(fmt, args, Machine))
CallWeprintf(fmt, args) == Reports("weprintf", NullStr, fmt, weprintf(fmt, args, Machine))
CallTeprintf(tag, fmt, args) ==
    Reports("teprintf", tag, fmt, teprintf(tag, fmt, args, Machine))

\* an allocation routine is called; a diagnostic it writes reads the names
Allocates(op, arg, outs) ==
    /\ Running
    /\ \E o \in outs :
          /\ Becomes(o.m)
          /\ last' = Op(op, arg,
                        [o EXCEPT !.ub = IF o.ub = "none" /\ o.m.diag # NoDiag
                                         THEN NameUB ELSE o.ub])
    /\ UNCHANGED <<position, pname, sname, istty, prel, srel>>

CallerBlocks == {HeapPtr(a) : a \in {x \in Addr : heap[x].live /\ heap[x].own = "caller"}}

CallEstrdup(s) == Allocates("estrdup", s, estrdup(s, Machine))
CallWestrdup(s) == Allocates("westrdup", s, westrdup(s, Machine))
CallEmalloc(n) == Allocates("emalloc", Dec(n), emalloc(n, Machine))
CallWemalloc(n) == Allocates("wemalloc", Dec(n), wemalloc(n, Machine))
CallErealloc(vp, n) == Allocates("erealloc", Dec(n), erealloc(vp, n, Machine))
CallWerealloc(vp, n) == Allocates("werealloc", Dec(n), werealloc(vp, n, Machine))

\* the block a name points to belongs to the module
Owned(h, p) == IF p = NULL THEN h ELSE [h EXCEPT ![p.b].own = "module"]

\* pname = estrdup(c)
setprogname(s) ==
    /\ Running
    /\ \E o \in setname(s, Machine) :
          /\ Becomes([o.m EXCEPT !.heap = IF o.returned THEN Owned(o.m.heap, o.ret) ELSE @])
          /\ IF o.returned
             THEN pname' = o.ret /\ prel' = FALSE
             ELSE UNCHANGED <<pname, prel>>
          /\ last' = Op("setprogname", s, o)
    /\ UNCHANGED <<position, sname, istty, srel>>

\* sname = estrdup(c)
setsrcname(s) ==
    /\ Running
    /\ \E o \in setname(s, Machine) :
          /\ Becomes([o.m EXCEPT !.heap = IF o.returned THEN Owned(o.m.heap, o.ret) ELSE @])
          /\ IF o.returned
             THEN sname' = o.ret /\ srel' = FALSE
             ELSE UNCHANGED <<sname, srel>>
          /\ last' = Op("setsrcname", s, o)
    /\ UNCHANGED <<position, pname, istty, prel>>

\* free(pname)
freeprogname ==
    /\ Running
    /\ \E m \in free(pname, Machine) :
          /\ Becomes(m)
          /\ last' = Op("freeprogname", <<>>,
                        Outcome(m, NULL, IF pname # NULL /\ prel THEN "double-free" ELSE "none"))
    /\ prel' = (pname # NULL)
    /\ UNCHANGED <<position, pname, sname, istty, srel>>

\* mutant: sname is reset after the free
freesrcname_resets ==
    /\ Running
    /\ \E m \in free(sname, Machine) :
          /\ Becomes(m)
          /\ last' = Op("freesrcname", <<>>,
                        Outcome(m, NULL, IF sname # NULL /\ srel THEN "double-free" ELSE "none"))
    /\ sname' = NULL
    /\ srel' = FALSE
    /\ UNCHANGED <<position, pname, istty, prel>>

\* free(sname)
freesrcname ==
    /\ Running
    /\ \E m \in free(sname, Machine) :
          /\ Becomes(m)
          /\ last' = Op("freesrcname", <<>>,
                        Outcome(m, NULL, IF sname # NULL /\ srel THEN "double-free" ELSE "none"))
    /\ srel' = (sname # NULL)
    /\ UNCHANGED <<position, pname, sname, istty, prel>>

Tags == {NullStr, Str(<<"Tag">>)}
Lines == 0..MaxLine

\* ---- the specifications
\* Reporting: the driver installs each name once at startup and may release it;
\* the scanner moves; diagnostics of every kind are reported.
Next ==
    \/ \E l \in Lines, c \in Lines : Scan(l, c)
    \/ SysCallFails
    \/ \E fmt \in Fmts : \E args \in ArgsFor(fmt) : CallEprintf(fmt, args)
    \/ \E fmt \in Fmts : \E args \in ArgsFor(fmt) : CallLeprintf(fmt, args)
    \/ \E fmt \in Fmts : \E args \in ArgsFor(fmt) : CallWeprintf(fmt, args)
    \/ \E tag \in Tags, fmt \in Fmts : \E args \in ArgsFor(fmt) : CallTeprintf(tag, fmt, args)
    \/ \E s \in Paths : pname = NULL /\ setprogname(s)
    \/ \E s \in Paths : sname = NULL /\ setsrcname(s)
    \/ freeprogname
    \/ freesrcname

Spec == Init /\ [][Next]_vars

\* Allocation: the caller allocates, duplicates, resizes and frees.
NextAlloc ==
    \/ \E a \in Addr : CallerFree(a)
    \/ \E s \in Paths : CallEstrdup(s)
    \/ \E s \in Paths : CallWestrdup(s)
    \/ \E n \in Sizes : CallEmalloc(n)
    \/ \E n \in Sizes : CallWemalloc(n)
    \/ \E vp \in CallerBlocks \cup {NULL}, n \in Sizes : CallErealloc(vp, n)
    \/ \E vp \in CallerBlocks \cup {NULL}, n \in Sizes : CallWerealloc(vp, n)

SpecAlloc == Init /\ [][NextAlloc]_vars

\* Names: the names are set and released in any order, any number of times,
\* and a warning with an empty message is reported in between.
NextNames ==
    \/ \E s \in Paths : setprogname(s)
    \/ \E s \in Paths : setsrcname(s)
    \/ freeprogname
    \/ freesrcname
    \/ CallWeprintf(<<>>, <<>>)

SpecNames == Init /\ [][NextNames]_vars

\* ---- properties
ReportOps == {"eprintf", "leprintf", "weprintf", "teprintf"}
Kinds == [i \in 1..Len(diag.steps) |-> diag.steps[i].k]
StepsOf(k) == {i \in 1..Len(diag.steps) : diag.steps[i].k = k}
OutOf(k) == diag.steps[CHOOSE i \in StepsOf(k) : TRUE].out
EndsInColon(fmt) == Len(fmt) > 0 /\ fmt[Len(fmt)] = ":"
OneLine ==
    /\ Cardinality(StepsOf("newline")) = 1
    /\ diag.steps[Len(diag.steps)].k = "newline"

ColourTokens == {"\\033[", "1;", "31m", "33m", "37m", "m"}
IsText(tok) == tok \notin ColourTokens
Plain(text) == SelectSeq(text, IsText)

\* C1: eprintf and leprintf always end the process with exit status 2 and
\* teprintf with exit status 3; the diagnostic line is complete by then and
\* the call does not return.
C1_FatalExit ==
    /\ last.op \in {"eprintf", "leprintf"} =>
          /\ status = "exited" /\ exitCode = 2 /\ ~last.returned
          /\ diag.entry = last.op /\ OneLine
    /\ last.op = "teprintf" =>
          /\ status = "exited" /\ exitCode = 3 /\ ~last.returned
          /\ diag.entry = last.op /\ OneLine

C1_Witness ==
    /\ last.op = "teprintf" /\ exitCode = 3 /\ status = "exited"
    /\ pname # NULL /\ sname # NULL /\ position.line = 1 /\ diag.fmt = <<":">>

\* C2: weprintf never ends the process and always returns, having written
\* exactly one line.
C2_WarningReturns ==
    last.op = "weprintf" =>
        /\ status = "running" /\ last.returned
        /\ diag.entry = "weprintf" /\ OneLine

C2_Witness ==
    /\ last.op = "weprintf" /\ status = "running" /\ diag.fmt = <<":">>
    /\ sname # NULL /\ errno = ENOTTY

\* C3: when the format ends in a colon, the line ends with a space and the
\* description of the error code errno held when the reporting routine was
\* called, whether or not stderr is a terminal.
C3_SuffixDescribesErrnoAtCall ==
    (last.op \in ReportOps /\ EndsInColon(diag.fmt)) =>
        /\ Len(diag.steps) >= 2
        /\ diag.steps[Len(diag.steps) - 1] =
              [k |-> "strerror", out |-> <<" ">> \o strerror(diag.e0)]

\* C4: a Die variant returns only a block that is in use (for estrdup, one that
\* holds a copy of the string); otherwise it has written an Error diagnostic
\* whose format ends in a colon and ended the process with exit status 2,
\* without using the missing block.
C4_DieVariants ==
    last.op \in {"emalloc", "erealloc", "estrdup"} =>
        IF last.returned
        THEN /\ last.ret # NULL /\ last.ret.b \in Addr /\ heap[last.ret.b].live
             /\ last.op = "estrdup" => heap[last.ret.b].data = last.arg
        ELSE /\ status = "exited" /\ exitCode = 2
             /\ diag.entry = "eprintf" /\ EndsInColon(diag.fmt) /\ OneLine
             /\ last.ub = "none"

C4_Witness ==
    /\ last.op = "estrdup" /\ ~last.returned /\ status = "exited" /\ exitCode = 2
    /\ last.arg = <<"a", "/">>

\* C5: when the allocation fails, a Warn variant writes exactly one Warning
\* line, does not end the process, makes no access through the missing block
\* and returns NULL.
C5_WarnVariants ==
    (last.op \in {"wemalloc", "werealloc", "westrdup"} /\ diag # NoDiag) =>
        /\ status = "running" /\ last.returned /\ last.ret = NULL
        /\ last.ub = "none"
        /\ diag.entry = "weprintf" /\ OneLine

\* C6: before any set the getters return NULL; after setsrcname(path) or
\* setprogname(path) returns, the getter returns a heap block of the module,
\* not the caller's string, that holds the text after the last '/' of path,
\* or path itself when it has no '/'.
Basename(path) ==
    LET I == {i \in 1..Len(path) : path[i] = "/"}
    IN  IF I = {} THEN path
        ELSE SubSeq(path, (CHOOSE i \in I : \A j \in I : j <= i) + 1, Len(path))

Installed(p, path) ==
    /\ p # NULL /\ p.b \in Addr /\ p.o = 0
    /\ heap[p.b].live
    /\ heap[p.b].data = Basename(path)

C6_LastComponent ==
    /\ getsrcname = NULL /\ getprogname = NULL
    /\ [][/\ sname' # sname => last'.op = "setsrcname" /\ last'.returned
          /\ pname' # pname => last'.op = "setprogname" /\ last'.returned
          /\ (last'.op = "setsrcname" /\ last'.returned) =>
                getsrcname' = last'.ret /\ Installed(getsrcname, last.arg)'
          /\ (last'.op = "setprogname" /\ last'.returned) =>
                getprogname' = last'.ret /\ Installed(getprogname, last.arg)']_vars

C6_Witness ==
    /\ last.op = "setsrcname" /\ last.returned /\ last.arg = <<"/", "a">>
    /\ sname # NULL /\ heap[sname.b].data = <<"a">>

\* C7: eprintf and weprintf write no position; leprintf and teprintf write
\* "<line>:<col>:" with the value position has when they are called; no
\* reporting routine changes position, pname or sname.
C7_Position ==
    [][last'.op \in ReportOps =>
          /\ position' = position /\ pname' = pname /\ sname' = sname
          /\ last'.op \in {"eprintf", "weprintf"} => StepsOf("pos")' = {}
          /\ last'.op \in {"leprintf", "teprintf"} =>
                /\ Cardinality(StepsOf("pos")') = 1
                /\ Plain(OutOf("pos")') =
                      <<ToString(position.line), ":", ToString(position.col), ":">>]_vars

C7_Witness ==
    /\ last.op = "leprintf" /\ position = [line |-> 1, col |-> 0]
    /\ StepsOf("pos") # {}

\* C8: when stderr is not a terminal nothing the module writes holds an escape
\* sequence; when it is, the source name, the position and the Error: and
\* Warning: tags each follow their colour sequence and are followed by the
\* reset sequence.
Wrapped(out, colour, n) ==
    /\ SubSeq(out, n, n + Len(colour) - 1) = colour
    /\ \E i \in (n + Len(colour))..(Len(out) - 1) :
          /\ SubSeq(out, i, i + 1) = <<"\\033[", "m">>
          /\ \A j \in (n + Len(colour))..(i - 1) : IsText(out[j])

C8_Colours ==
    last.op \in ReportOps =>
        IF ~istty
        THEN \A i \in 1..Len(diag.steps) :
                \A j \in 1..Len(diag.steps[i].out) : IsText(diag.steps[i].out[j])
        ELSE /\ StepsOf("srcname") # {} =>
                   Wrapped(OutOf("srcname"), <<"\\033[", "1;", "37m">>, 2)
             /\ StepsOf("pos") # {} =>
                   Wrapped(OutOf("pos"), <<"\\033[", "1;", "37m">>, 1)
             /\ last.op \in {"eprintf", "leprintf"} =>
                   /\ Wrapped(OutOf("pre"), <<"\\033[", "1;", "31m">>, 2)
                   /\ Plain(OutOf("pre")) = <<" ", "Error:", " ">>
             /\ last.op = "weprintf" =>
                   /\ Wrapped(OutOf("pre"), <<"\\033[", "1;", "33m">>, 2)
                   /\ Plain(OutOf("pre")) = <<" ", "Warning:", " ">>

C8_Witness ==
    /\ istty /\ last.op = "leprintf" /\ sname # NULL /\ pname # NULL
    /\ Len(OutOf("srcname")) > 5

\* C9: every diagnostic is written in this order: stdout is flushed; then the
\* program name and ":" if it is set; then " ", the source name and ":" if it
\* is set; then the position if one was passed; then " <tag> ", or " " without
\* a tag; then the message; then the error string if and only if the format is
\* not empty and ends in a colon; then one newline.
Opt(cond, k) == IF cond THEN <<k>> ELSE <<>>

C9_Order ==
    last.op \in ReportOps =>
        /\ Kinds = <<"fflush">>
                   \o Opt(pname # NULL, "progname")
                   \o Opt(sname # NULL, "srcname")
                   \o Opt(last.op \in {"leprintf", "teprintf"}, "pos")
                   \o <<"pre", "body">>
                   \o Opt(EndsInColon(diag.fmt), "strerror")
                   \o <<"newline">>
        /\ pname # NULL =>
              \E txt \in {heap[pname.b].data} \cup (IF prel THEN Garbage ELSE {}) :
                  OutOf("progname") = txt \o <<":">>
        /\ sname # NULL =>
              \E txt \in {heap[sname.b].data} \cup (IF srel THEN Garbage ELSE {}) :
                  Plain(OutOf("srcname")) = <<" ">> \o txt \o <<":">>
        /\ LET pre == Plain(OutOf("pre"))
           IN  /\ Len(pre) \in {1, 3}
               /\ pre[1] = " " /\ pre[Len(pre)] = " "
               /\ Len(pre) = 1 <=> last.op = "teprintf" /\ last.tag = NullStr
        /\ OutOf("newline") = <<"\n">>

C9_Witness ==
    /\ last.op = "teprintf" /\ pname # NULL /\ sname # NULL
    /\ diag.fmt = <<":">> /\ Len(diag.steps) = 8

\* C10: a release leaves the getter's pointer as it was, now pointing to
\* storage that is not in use; a diagnostic written after a release and before
\* the next set reads that storage; a second release frees it again; a set
\* while a name is installed (set, not released, its copy not freed by a
\* release through another pointer) leaves the previous copy in use, and the
\* name no longer points to it.
Holds(p, released) == p # NULL /\ ~released /\ heap[p.b].live

C10_ReleaseAndLeak ==
    [][/\ last'.op = "freesrcname" =>
             /\ getsrcname' = getsrcname
             /\ (sname # NULL /\ status' = "running") => ~heap'[sname.b].live
             /\ (sname # NULL /\ srel) => last'.ub = "double-free"
       /\ last'.op = "freeprogname" =>
             /\ getprogname' = getprogname
             /\ (pname # NULL /\ status' = "running") => ~heap'[pname.b].live
             /\ (pname # NULL /\ prel) => last'.ub = "double-free"
       /\ (last'.op = "weprintf" /\ sname # NULL /\ srel) =>
             last'.ub = "use-after-free" /\ StepsOf("srcname")' # {}
       /\ (last'.op = "weprintf" /\ pname # NULL /\ prel) =>
             last'.ub = "use-after-free" /\ StepsOf("progname")' # {}
       /\ (last'.op = "setsrcname" /\ last'.returned /\ Holds(sname, srel)) =>
             /\ heap'[sname.b].live /\ heap'[sname.b].own = "module"
             /\ getsrcname' # getsrcname
       /\ (last'.op = "setprogname" /\ last'.returned /\ Holds(pname, prel)) =>
             /\ heap'[pname.b].live /\ heap'[pname.b].own = "module"
             /\ getprogname' # getprogname]_vars

Leaked == {a \in Addr : heap[a].live /\ heap[a].own = "module"
                        /\ HeapPtr(a) # sname /\ HeapPtr(a) # pname}

C10_Witness ==
    /\ Leaked # {}
    /\ last.op = "freesrcname" /\ last.ub = "double-free" /\ status = "running"
    /\ sname # NULL

====
